---- MODULE Spec2Model ----
(***************************************************************************)
(* L-Store query engine (lstore/query.py, lstore/db.py): a table, its page  *)
(* ranges (page objects), the buffer pool's view of those pages, the page  *)
(* directory and the per-column index, driven by the Query operations      *)
(* insert / update / delete / increment; a second table of the same        *)
(* database, the database's lock manager and pin counts, and the           *)
(* database's registry of tables.  The reads (select, select_version, sum, *)
(* sum_version) are operators on the state; a select made inside a         *)
(* transaction takes a lock and is an action too.                          *)
(*                                                                         *)
(* Conventions.  RIDs are the 4-tuples of the code,                        *)
(* <<page_range_idx, page_idx, record_idx, page_type>>, with the code's    *)
(* 0-based indices; TLA+ sequences are 1-based, so slot i of a list is     *)
(* element i + 1.  Columns are numbered 1..num_columns (the code's column  *)
(* c is column c + 1 here).  Python's None in a column position is Null;   *)
(* an indirection of None is NoneInd and the tombstone ["empty"] is        *)
(* EmptyInd.                                                               *)
(***************************************************************************)
EXTENDS Integers, Sequences, FiniteSets, TLC

(* ------------------------------ bounds -------------------------------- *)
MaxKey == 2           \* primary keys are drawn from 1..MaxKey
MaxVal == 1           \* non-key column values are drawn from 0..MaxVal
MaxBase == 2          \* insert is offered while fewer base records exist
MaxTail == 2          \* update is offered while fewer tail records exist
MaxChain == 3         \* the same, for the updates that keep the key (SpecChain)
MaxTx == 2            \* transactions are numbered 1..MaxTx
MaxTxBase == 1        \* base records of the two tables together (SpecTx)
MaxTxTail == 1        \* tail records of the two tables together (SpecTx)
MaxPins == 2          \* update is offered while no page has this many pins
MaxCreate == 4        \* create_table is offered while fewer tables were made
MaxLongBase == 1      \* base records of the runs with a long tail (SpecLong)
MaxLongTail == 3      \* tail records of the runs with a long tail (SpecLong)
MaxRaceBase == 1      \* base records of the runs step by step (SpecRace)
MaxRaceTail == 2      \* tail records of the runs step by step (SpecRace)
MaxStepBase == 1      \* base records of the runs with update in two steps (SpecSteps)
MaxStepTail == 2      \* tail records of the runs with update in two steps (SpecSteps)

(* ------------------------- program constants -------------------------- *)
num_columns == 2      \* Table.num_columns of the table under test
key_index == 1        \* Table.key (the code's column 0)
PAGE_CAPACITY == 2    \* K: slots per physical page
RANGE_BASE_PAGES == 1 \* M: base pages per page range
MERGE_THRESHOLD == 2  \* updates per table between two merge triggers
max_iterations == 1000
Null == -1

Keys == 1..MaxKey
Values == 0..MaxVal
\* every value a column can come to hold: a written one, or one raised by
\* increment
IndexVals == 0..(MaxKey + MaxVal + MaxChain + 1)
\* the transactions; NoTx is Query(table) without a transaction
NoTx == 0
Txs == 1..MaxTx
\* the tables of the database that queries are made on
Tables == {"A", "B"}
Cols == 1..num_columns
NoneInd == <<"none">>
EmptyInd == <<"empty">>
Timestamp == "ts"     \* datetime.now() string: opaque to the engine

ColDomain(c) == IF c = key_index THEN Keys ELSE Values
AllVals == Keys \cup Values

\* every full row r \in Rows: one value per column
Rows == {r \in [Cols -> AllVals] : \A c \in Cols : r[c] \in ColDomain(c)}
\* every update argument list: a value or Null per column
UpdateRows == {r \in [Cols -> AllVals \cup {Null}] :
                 \A c \in Cols : r[c] \in ColDomain(c) \cup {Null}}

\* the rows the updates of transactions supply: a key or none, and no
\* value for the other columns
FewRows == {r \in UpdateRows : \A c \in Cols \ {key_index} : r[c] = Null}

VARIABLES
  page_ranges,     \* Table.page_ranges: the page objects
  bufferpool,      \* BufferPool: page id -> installed page data
  page_directory,  \* Table.page_directory: insertion-ordered RID -> Record
  index,           \* Table.index: column -> value -> list of RIDs
  merge_counter,   \* Table.merge_counter
  merges,          \* number of trigger_merge calls so far
  other,           \* the same six, for the database's second table
  locks,           \* Database.lock_manager: the locks held
  locks_held,      \* Transaction.locks_held, per transaction
  pins,            \* BufferPool: pin count per (table, page id)
  tables,          \* Database.tables
  constructed,     \* number of Table objects constructed so far
  last,            \* the last call and what it returned
  recs,            \* history: the records as the callers were told they are
  held_in,         \* history: the table each held lock was asked through
  made_as,         \* history: per name, the table its last create_table
                   \* returned, 0 once dropped
  running,         \* per caller, the call it is in and where it stands
  removed          \* history: the RIDs a delete made step by step returned
                   \* True for, with its transaction

vars == <<page_ranges, bufferpool, page_directory, index, merge_counter,
          merges, other, locks, locks_held, pins, tables, constructed,
          last, recs, held_in, made_as, running, removed>>

(* ----------------------------- sequences ------------------------------ *)
\* Python's lst[i] for a 0-based i known to be in range
At(lst, i) == lst[i + 1]

\* lst with the 0-based position i replaced by v
SetAt(lst, i, v) == [lst EXCEPT ![i + 1] = v]

RECURSIVE SeqFilterOut(_, _)
SeqFilterOut(lst, x) ==
  IF lst = <<>> THEN <<>>
  ELSE IF Head(lst) = x THEN SeqFilterOut(Tail(lst), x)
       ELSE <<Head(lst)>> \o SeqFilterOut(Tail(lst), x)

(* ------------------------------- pages -------------------------------- *)
\* a freshly constructed BasePage / TailPage object: num_columns physical
\* pages and the four per-slot vectors
NewPage ==
  [pages |-> [c \in Cols |-> <<>>], rid |-> <<>>, start_time |-> <<>>,
   schema_encoding |-> <<>>, indirection |-> <<>>, num_records |-> 0]

\* PhysicalPage.has_capacity / BasePage.has_capacity
has_capacity(page) == Len(page.pages[1]) < PAGE_CAPACITY

\* the buffer pool's page data for a page nobody has written
EmptyPageData ==
  [columns |-> [c \in Cols |-> <<>>], rid |-> <<>>, timestamp |-> <<>>,
   schema_encoding |-> <<>>, indirection |-> <<>>]

PageId(kind, pr, pg) == <<kind, pr, pg>>
PageIdOf(rid) == PageId(IF rid[4] = "b" THEN "base" ELSE "tail", rid[1], rid[2])

\* BufferPool.get_page: the installed data of the page, or an empty view
get_page(bp, id) == IF id \in DOMAIN bp THEN bp[id] ELSE EmptyPageData

\* BufferPool.set_page: install data as the page's content
set_page(bp, id, data) ==
  [i \in DOMAIN bp \cup {id} |-> IF i = id THEN data ELSE bp[i]]

\* PageRange.has_base_capacity
has_base_capacity(range) ==
  \/ Len(range.base_pages) < RANGE_BASE_PAGES
  \/ has_capacity(range.base_pages[Len(range.base_pages)])

NewPageRange == [base_pages |-> <<NewPage>>, tail_pages |-> <<>>]

\* PageRange.add_tail_page
add_tail_page(range) == [range EXCEPT !.tail_pages = Append(@, NewPage)]

(* -------------------------- page directory ---------------------------- *)
Record(rid, key, columns) == [rid |-> rid, key |-> key, columns |-> columns]

\* rid in page_directory
InDirectory(pd, rid) == \E i \in 1..Len(pd) : pd[i].rid = rid

\* page_directory[rid], for a rid that is in it
DirGet(pd, rid) == pd[CHOOSE i \in 1..Len(pd) : pd[i].rid = rid]

\* page_directory[rid] = record: a dict keeps the position of a key it has
DirPut(pd, rid, record) ==
  IF InDirectory(pd, rid)
  THEN [i \in 1..Len(pd) |-> IF pd[i].rid = rid THEN record ELSE pd[i]]
  ELSE Append(pd, record)

\* del page_directory[rid]
DirDel(pd, rid) == SelectSeq(pd, LAMBDA e : e.rid # rid)

(* ------------------------------- index -------------------------------- *)
\* Index.locate(column, value)
locate(idx, column, value) == idx[column][value]

\* Index.insert(value, rid) on the index of `column`
IndexInsert(idx, column, value, rid) ==
  [idx EXCEPT ![column][value] = Append(@, rid)]

\* Index.delete(value, rid): the key column's index drops the pair
IndexDelete(idx, value, rid) ==
  [idx EXCEPT ![key_index][value] = SeqFilterOut(@, rid)]

EmptyIndex == [c \in Cols |-> [v \in IndexVals |-> <<>>]]

(* ---------------------------- lock manager ---------------------------- *)
\* LockManager: read is shared, insert / update / delete are exclusive
Exclusive(mode) == mode # "read"

\* the lock a transaction holds on a key: "X", "S" or "none"
Held(lks, tx, key) ==
  IF <<key, tx, "X">> \in lks THEN "X"
  ELSE IF <<key, tx, "S">> \in lks THEN "S" ELSE "none"

\* LockManager.acquire_lock(tx_id, key, mode): the returned value; a
\* conflict with a lock of another transaction is refused at once
acquire_lock(lks, tx, key, mode) ==
  \A l \in lks :
    l[1] = key /\ l[2] # tx => l[3] = "S" /\ ~Exclusive(mode)

\* the locks after a granted acquire_lock
Granted(lks, tx, key, mode) ==
  IF Exclusive(mode) THEN (lks \ {<<key, tx, "S">>}) \cup {<<key, tx, "X">>}
  ELSE IF Held(lks, tx, key) = "X" THEN lks
  ELSE lks \cup {<<key, tx, "S">>}

\* LockManager.release_all(tx_id)
release_all(lks, tx) == {l \in lks : l[2] # tx}

(* ----------------------------- pin counts ----------------------------- *)
PinCount(pns, name, id) ==
  IF <<name, id>> \in DOMAIN pns THEN pns[<<name, id>>] ELSE 0

\* the pin counts after a get_page(id) of the table that no unpin_page
\* follows
Pinned(pns, name, id) ==
  [i \in DOMAIN pns \cup {<<name, id>>} |->
     IF i = <<name, id>> THEN PinCount(pns, name, id) + 1 ELSE pns[i]]

\* the pin counts after an unpin_page(id) of the table; a page without a
\* pin has no entry
Unpinned(pns, name, id) ==
  [i \in DOMAIN pns \ (IF pns[<<name, id>>] = 1 THEN {<<name, id>>} ELSE {}) |->
     IF i = <<name, id>> THEN pns[i] - 1 ELSE pns[i]]

(* ------------------------------- table -------------------------------- *)
\* the table as the operators below read it
Tbl ==
  [name |-> "A", page_ranges |-> page_ranges, bufferpool |-> bufferpool,
   page_directory |-> page_directory, index |-> index,
   locks |-> locks, locks_held |-> locks_held, pins |-> pins]

\* the second table with the same database
OtherTbl ==
  [name |-> "B", page_ranges |-> other.page_ranges,
   bufferpool |-> other.bufferpool, page_directory |-> other.page_directory,
   index |-> other.index,
   locks |-> locks, locks_held |-> locks_held, pins |-> pins]

TblOf(tb) == IF tb = "A" THEN Tbl ELSE OtherTbl

\* an append that forgets the schema encoding of the slot
PageAppendNoSchema(page, columns, rid, schema, indirection) ==
  [pages |-> [c \in Cols |-> Append(page.pages[c], columns[c])],
   rid |-> Append(page.rid, rid),
   start_time |-> Append(page.start_time, Timestamp),
   schema_encoding |-> page.schema_encoding,
   indirection |-> Append(page.indirection, indirection),
   num_records |-> page.num_records + 1]

\* BasePage.append on the page object: every physical page and every
\* per-slot vector gets the new slot
PageAppend(page, columns, rid, schema, indirection) ==
  [pages |-> [c \in Cols |-> Append(page.pages[c], columns[c])],
   rid |-> Append(page.rid, rid),
   start_time |-> Append(page.start_time, Timestamp),
   schema_encoding |-> Append(page.schema_encoding, schema),
   indirection |-> Append(page.indirection, indirection),
   num_records |-> page.num_records + 1]

\* the same append on the buffer pool's page data
DataAppend(data, columns, rid, schema, indirection) ==
  [columns |-> [c \in Cols |-> Append(data.columns[c], columns[c])],
   rid |-> Append(data.rid, rid),
   timestamp |-> Append(data.timestamp, Timestamp),
   schema_encoding |-> Append(data.schema_encoding, schema),
   indirection |-> Append(data.indirection, indirection)]

\* Table.insert_record, step 1: the page ranges with room for one more
\* base slot in the last base page of the last range
RangesWithBaseRoom(prs) ==
  IF prs = <<>> \/ ~has_base_capacity(prs[Len(prs)])
  THEN Append(prs, NewPageRange)
  ELSE LET range == prs[Len(prs)] IN
       IF has_capacity(range.base_pages[Len(range.base_pages)])
       THEN prs
       ELSE [prs EXCEPT ![Len(prs)].base_pages = Append(@, NewPage)]

RECURSIVE IndexInsertAll(_, _, _, _)
\* Table.insert_record, step 6: columns c..num_columns into their indexes
IndexInsertAll(idx, c, columns, rid) ==
  IF c > num_columns THEN idx
  ELSE IndexInsertAll(IndexInsert(idx, c, columns[c], rid), c + 1, columns, rid)

\* Table.insert_record(timestamp, schema_encoding, *columns)
insert_record(t, schema, columns) ==
  LET prs == RangesWithBaseRoom(t.page_ranges)
      pr == Len(prs) - 1
      bp == Len(prs[pr + 1].base_pages) - 1
      page == At(prs[pr + 1].base_pages, bp)
      slot == Len(page.pages[1])
      rid == <<pr, bp, slot, "b">>
      id == PageId("base", pr, bp)
      data == get_page(t.bufferpool, id)
  IN [t EXCEPT
        !.page_ranges =
           [prs EXCEPT ![pr + 1].base_pages[bp + 1] =
              PageAppend(page, columns, rid, schema, NoneInd)],
        !.bufferpool =
           set_page(t.bufferpool, id,
                    DataAppend(data, columns, rid, schema, NoneInd)),
        !.page_directory =
           DirPut(t.page_directory, rid, Record(rid, columns[key_index], columns)),
        !.index = IndexInsertAll(t.index, 1, columns, rid)]

\* a duplicate check that looks the key up in the last column's index
KeyExistsWrongColumn(t, key) == locate(t.index, num_columns, key) # <<>>

\* Query.insert, line 107: the key index already has a RID for the key
KeyExists(t, key) == locate(t.index, key_index, key) # <<>>

\* Query.insert(*columns): [ok, t] the returned value and the table after
QueryInsert(t, columns) ==
  IF KeyExists(t, columns[key_index])
  THEN [ok |-> FALSE, t |-> t]
  ELSE [ok |-> TRUE,
        t |-> insert_record(t, [c \in Cols |-> "0"], columns)]

(* ------------------------------ readers ------------------------------- *)
\* Query._get_latest_version(rid): the base page's indirection of the slot
\* in the buffer pool, or rid itself when it is None, the tombstone or
\* out of range
_get_latest_version(t, rid) ==
  LET indirections == get_page(t.bufferpool, PageId("base", rid[1], rid[2])).indirection
  IN IF rid[3] < Len(indirections)
     THEN LET temp == At(indirections, rid[3]) IN
          IF temp = NoneInd \/ temp = EmptyInd THEN rid ELSE temp
     ELSE rid

RECURSIVE LatestWalk(_, _, _, _, _)
\* the while loop of Query._safely_get_latest_version
LatestWalk(t, rid, current, visited, iterations) ==
  IF iterations >= max_iterations THEN rid
  ELSE LET indirections == get_page(t.bufferpool, PageIdOf(current)).indirection IN
       IF \/ current[3] >= Len(indirections)
          \/ At(indirections, current[3]) = NoneInd
          \/ At(indirections, current[3]) = EmptyInd
       THEN current
       ELSE LET next_rid == At(indirections, current[3]) IN
            IF next_rid \in visited THEN current
            ELSE LatestWalk(t, rid, next_rid, visited \cup {next_rid}, iterations + 1)

\* Query._safely_get_latest_version(rid)
_safely_get_latest_version(t, rid) == LatestWalk(t, rid, rid, {rid}, 0)

\* the page object a RID names, as _safely_get_historical_version looks it
\* up; HasPage says whether its indices are valid
HasPage(t, rid) ==
  /\ rid[1] < Len(t.page_ranges)
  /\ LET range == t.page_ranges[rid[1] + 1] IN
       IF rid[4] = "b" THEN rid[2] < Len(range.base_pages)
       ELSE rid[2] < Len(range.tail_pages)

PageOf(t, rid) ==
  LET range == t.page_ranges[rid[1] + 1] IN
    IF rid[4] = "b" THEN At(range.base_pages, rid[2])
    ELSE At(range.tail_pages, rid[2])

RECURSIVE HistoricalWalk(_, _, _, _, _, _)
\* the while loop of Query._safely_get_historical_version; a chain entry
\* that is no RID (the tombstone) fails to unpack: the except branch
\* returns base_rid
HistoricalWalk(t, base_rid, steps_back, current, steps_taken, visited) ==
  LET done == IF steps_taken < steps_back THEN base_rid ELSE current IN
  IF steps_taken >= steps_back THEN done
  ELSE IF current = base_rid THEN done
  ELSE IF current = EmptyInd THEN base_rid
  ELSE IF ~HasPage(t, current) THEN done
  ELSE LET c_page == PageOf(t, current) IN
       IF current[3] >= Len(c_page.indirection) THEN done
       ELSE LET prev == At(c_page.indirection, current[3]) IN
            IF prev = current \/ prev = NoneInd THEN done
            ELSE IF prev \in visited THEN done
            ELSE HistoricalWalk(t, base_rid, steps_back, prev,
                                steps_taken + 1, visited \cup {prev})

\* Query._safely_get_historical_version(current_rid, base_rid, steps_back)
_safely_get_historical_version(t, current_rid, base_rid, steps_back) ==
  IF steps_back <= 0 THEN current_rid
  ELSE HistoricalWalk(t, base_rid, steps_back, current_rid, 0, {current_rid})

\* Query._get_column_value(rid, column_index), the definition in force (the
\* second one of the class): the buffer pool's value of the slot, else the
\* page object's, else None
_get_column_value(t, rid, c) ==
  LET data == get_page(t.bufferpool, PageIdOf(rid)) IN
  IF rid[3] < Len(data.columns[c]) THEN At(data.columns[c], rid[3])
  ELSE IF HasPage(t, rid) /\ rid[3] < Len(PageOf(t, rid).pages[c])
       THEN At(PageOf(t, rid).pages[c], rid[3])
       ELSE Null

\* int(value) if value is not None else 0
IntOrZero(value) == IF value = Null THEN 0 ELSE value

RECURSIVE ProjectFrom(_, _, _)
\* the values f[c] of the columns c..num_columns whose flag is 1, in order
ProjectFrom(f, projection, c) ==
  IF c > num_columns THEN <<>>
  ELSE (IF projection[c] = 1 THEN <<f[c]>> ELSE <<>>)
       \o ProjectFrom(f, projection, c + 1)

\* the projected values read slot by slot through _get_column_value
ReadProjected(t, rid, projection) ==
  ProjectFrom([c \in Cols |-> IntOrZero(_get_column_value(t, rid, c))],
              projection, 1)

\* Table.find_record(search_key, rid, projection): the record of the slot
\* that rid names, materialized column by column, 0 where unreadable
find_record(t, search_key, rid, projection) ==
  Record(rid, search_key, ReadProjected(t, rid, projection))

\* the first tail RID of the page directory whose Record has this key (the
\* for ... break scan of select and select_version); 0 when there is none
FirstTailWithKey(pd, search_key) ==
  LET hits == {i \in 1..Len(pd) : pd[i].key = search_key /\ pd[i].rid[4] = "t"}
  IN IF hits = {} THEN 0 ELSE CHOOSE i \in hits : \A j \in hits : i <= j

\* the body of select's loop for one RID of the index
SelectOne(t, search_key, rid, projection) ==
  LET latest_rid == _safely_get_latest_version(t, rid)
      hit == FirstTailWithKey(t.page_directory, search_key)
  IN IF hit # 0
     THEN Record(t.page_directory[hit].rid, search_key,
                 ProjectFrom(t.page_directory[hit].columns, projection, 1))
     ELSE find_record(t, search_key, latest_rid, projection)

\* Query.select(search_key, search_key_index, projected_columns_index)
select(t, search_key, search_key_index, projection) ==
  LET rids == locate(t.index, search_key_index, search_key)
  IN [i \in 1..Len(rids) |-> SelectOne(t, search_key, rids[i], projection)]

\* select_version, lines 222-224: the first base RID of the index entry, or
\* its first RID when it has no base RID
VersionBaseRid(rids) ==
  LET base == {i \in 1..Len(rids) : rids[i][4] = "b"}
  IN IF base = {} THEN rids[1]
     ELSE rids[CHOOSE i \in base : \A j \in base : i <= j]

\* select_version, lines 267-273: the RID a version below -1 resolves to
HistoricalTarget(t, base_rid, relative_version) ==
  LET latest_rid == _safely_get_latest_version(t, base_rid)
  IN IF latest_rid # base_rid
     THEN _safely_get_historical_version(
            t, latest_rid, base_rid,
            IF relative_version < 0 THEN -relative_version ELSE relative_version)
     ELSE base_rid

\* select_version, lines 280-285: the record the except branch returns,
\* the search key in its column and 0 elsewhere
VersionHandler(base_rid, search_key, search_key_index, projection) ==
  Record(base_rid, search_key,
         ProjectFrom([c \in Cols |-> IF c = search_key_index THEN search_key ELSE 0],
                     projection, 1))

\* None passed as relative_version (the versions the model passes are 0
\* and below, so a positive number is free to stand for it): it equals
\* neither -1 nor 0, and abs(None) raises TypeError at line 269
NoVersion == 1

\* the try block of select_version raises: abs() of a version that is no
\* number, reached when the record has a tail version (lines 267-269), or
\* a target that is no RID (the tombstone), which _get_column_value fails
\* to unpack (line 655, outside its own try)
VersionFails(t, search_key, search_key_index, relative_version) ==
  LET rids == locate(t.index, search_key_index, search_key) IN
    /\ rids # <<>>
    /\ relative_version \notin {0, -1}
    /\ IF relative_version = NoVersion
       THEN _safely_get_latest_version(t, VersionBaseRid(rids)) # VersionBaseRid(rids)
       ELSE HistoricalTarget(t, VersionBaseRid(rids), relative_version) = EmptyInd

\* Query.select_version(search_key, search_key_index, projection, version)
select_version(t, search_key, search_key_index, projection, relative_version) ==
  LET rids == locate(t.index, search_key_index, search_key) IN
  IF rids = <<>> THEN <<>>
  ELSE
    LET base_rid == VersionBaseRid(rids) IN
    IF relative_version = -1
    THEN IF InDirectory(t.page_directory, base_rid)
         THEN <<DirGet(t.page_directory, base_rid)>>
         ELSE <<Record(base_rid, search_key,
                       ReadProjected(t, base_rid, projection))>>
    ELSE IF relative_version = 0
    THEN LET target_rid == _safely_get_latest_version(t, base_rid)
             hit == FirstTailWithKey(t.page_directory, search_key)
         IN IF hit # 0
            THEN <<Record(t.page_directory[hit].rid, search_key,
                          ProjectFrom(t.page_directory[hit].columns,
                                      projection, 1))>>
            ELSE <<Record(target_rid, search_key,
                          ReadProjected(t, target_rid, projection))>>
    ELSE IF VersionFails(t, search_key, search_key_index, relative_version)
    THEN <<VersionHandler(base_rid, search_key, search_key_index, projection)>>
    ELSE LET target_rid == HistoricalTarget(t, base_rid, relative_version)
         IN <<Record(target_rid, search_key,
                     ReadProjected(t, target_rid, projection))>>

(* ---------------------------- aggregates ------------------------------ *)
RECURSIVE locate_range(_, _, _, _)
\* Index.locate_range(begin, end, column): the RIDs of the values begin..end
\* of the column's index, by ascending value
locate_range(idx, begin, end, column) ==
  IF begin > end THEN <<>>
  ELSE locate(idx, column, begin) \o locate_range(idx, begin + 1, end, column)

\* what sum returns when the range has no RID (Python's False)
NoRecords == [found |-> FALSE, total |-> 0]
Summed(total) == [found |-> TRUE, total |-> total]

RECURSIVE SumLoop(_, _, _, _, _, _, _, _)
\* the for loop of Query.sum from the i-th RID on
SumLoop(t, rids, i, start_range, end_range, c, processed_keys, total_sum) ==
  IF i > Len(rids) THEN total_sum
  ELSE
    LET latest_rid == _get_latest_version(t, rids[i])
        key_value == _get_column_value(t, latest_rid, key_index)
        value == _get_column_value(t, latest_rid, c)
    IN IF \/ key_value = Null
          \/ key_value < start_range
          \/ key_value > end_range
          \/ key_value \in processed_keys
       THEN SumLoop(t, rids, i + 1, start_range, end_range, c,
                    processed_keys, total_sum)
       ELSE SumLoop(t, rids, i + 1, start_range, end_range, c,
                    processed_keys \cup {key_value},
                    IF value # Null THEN total_sum + value ELSE total_sum)

\* Query.sum(start_range, end_range, aggregate_column_index)
sum(t, start_range, end_range, c) ==
  LET rids == locate_range(t.index, start_range, end_range, key_index) IN
  IF rids = <<>> THEN NoRecords
  ELSE Summed(SumLoop(t, rids, 1, start_range, end_range, c, {}, 0))

RECURSIVE ChainWalk(_, _, _, _, _)
\* the while loop of Query._build_indirection_chain
ChainWalk(t, latest_rid, chain, current, visited) ==
  IF current = latest_rid THEN chain
  ELSE LET indirections == get_page(t.bufferpool, PageIdOf(current)).indirection IN
       IF /\ current[3] < Len(indirections)
          /\ At(indirections, current[3]) # NoneInd
          /\ At(indirections, current[3]) # EmptyInd
       THEN LET next_rid == At(indirections, current[3]) IN
            IF next_rid \in visited THEN chain
            ELSE ChainWalk(t, latest_rid, Append(chain, next_rid), next_rid,
                           visited \cup {next_rid})
       ELSE chain

\* Query._build_indirection_chain(base_rid, latest_rid)
_build_indirection_chain(t, base_rid, latest_rid) ==
  ChainWalk(t, latest_rid, <<base_rid>>, base_rid, {base_rid})

\* sum_version, lines 722-765: the value one RID of the range adds
VersionValue(t, base_rid, key_value, c, relative_version) ==
  IF relative_version = 0
  THEN LET target_rid == _safely_get_latest_version(t, base_rid)
           hit == FirstTailWithKey(t.page_directory, key_value)
       IN IntOrZero(IF hit # 0 THEN t.page_directory[hit].columns[c]
                    ELSE _get_column_value(t, target_rid, c))
  ELSE IF relative_version = -1
  THEN IntOrZero(_get_column_value(t, base_rid, c))
  ELSE IF relative_version = -2
  THEN LET latest_rid == _safely_get_latest_version(t, base_rid)
           chain == _build_indirection_chain(t, base_rid, latest_rid)
           target_rid == IF latest_rid # base_rid /\ Len(chain) >= 2
                         THEN chain[Len(chain) - 1] ELSE base_rid
       IN IntOrZero(_get_column_value(t, target_rid, c))
  ELSE IntOrZero(_get_column_value(
                   t, HistoricalTarget(t, base_rid, relative_version), c))

RECURSIVE SumVersionLoop(_, _, _, _, _, _, _, _, _)
\* the for loop of Query.sum_version from the i-th RID on; a key column
\* that reads None fails the comparison and the RID is skipped (line 767)
SumVersionLoop(t, rids, i, start_range, end_range, c, relative_version, processed_keys, total_sum) ==
  IF i > Len(rids) THEN total_sum
  ELSE
    LET base_rid == rids[i]
        key_value == _get_column_value(t, base_rid, key_index)
    IN IF \/ key_value = Null
          \/ key_value < start_range
          \/ key_value > end_range
          \/ key_value \in processed_keys
       THEN SumVersionLoop(t, rids, i + 1, start_range, end_range, c,
                           relative_version, processed_keys, total_sum)
       ELSE SumVersionLoop(t, rids, i + 1, start_range, end_range, c,
                           relative_version, processed_keys \cup {key_value},
                           total_sum + VersionValue(t, base_rid, key_value, c,
                                                    relative_version))

\* Query.sum_version(start_range, end_range, aggregate_column_index,
\* relative_version)
sum_version(t, start_range, end_range, c, relative_version) ==
  LET rids == locate_range(t.index, start_range, end_range, key_index) IN
  IF rids = <<>> THEN 0
  ELSE SumVersionLoop(t, rids, 1, start_range, end_range, c, relative_version,
                      {}, 0)

(* ------------------------------ delete -------------------------------- *)
\* Query.delete(primary_key) from line 36 on, rids being what line 35 read
\* from the key index: [ok, t]
DeleteWith(t, rids, primary_key) ==
  IF rids = <<>> THEN [ok |-> FALSE, t |-> t]
  ELSE
    LET rid == rids[1] IN
    IF \/ rid[1] >= Len(t.page_ranges)
       \/ rid[2] >= Len(t.page_ranges[rid[1] + 1].base_pages)
    THEN [ok |-> FALSE, t |-> t]
    ELSE
      LET base_page == At(t.page_ranges[rid[1] + 1].base_pages, rid[2]) IN
      IF rid[3] >= Len(base_page.indirection)
      THEN IF InDirectory(t.page_directory, rid)
           THEN [ok |-> TRUE,
                 t |-> [t EXCEPT !.page_directory = DirDel(@, rid)]]
           ELSE [ok |-> FALSE, t |-> t]
      ELSE [ok |-> TRUE,
            t |-> [t EXCEPT
                     !.page_ranges[rid[1] + 1].base_pages[rid[2] + 1].indirection =
                        SetAt(@, rid[3], EmptyInd),
                     !.page_directory = DirDel(@, rid),
                     !.index = IndexDelete(@, primary_key, rid)]]

\* Query.delete(primary_key): [ok, t]
QueryDelete(t, primary_key) ==
  DeleteWith(t, locate(t.index, key_index, primary_key), primary_key)

(* ------------------------------ update -------------------------------- *)
\* update, lines 545-549: a "1" per supplied column
UpdateSchema(columns) == [c \in Cols |-> IF columns[c] # Null THEN "1" ELSE "0"]

\* update, lines 555-563: the row written to the tail slot
TailColumns(original_key, current_record, columns) ==
  [c \in Cols |->
     IF c = key_index THEN original_key
     ELSE IF columns[c] # Null THEN columns[c]
     ELSE current_record.columns[c]]

\* update, line 582: the key the record has after the update
NewKey(primary_key, columns) ==
  IF columns[key_index] # Null /\ columns[key_index] # primary_key
  THEN columns[key_index] ELSE primary_key

\* update, lines 523-528: the page range with a tail page that has room
RangeWithTailRoom(range) ==
  IF range.tail_pages = <<>> \/ ~has_capacity(range.tail_pages[Len(range.tail_pages)])
  THEN add_tail_page(range) ELSE range

\* update, lines 588-597: the page directory and the key index after a
\* change of the primary key
KeyChange(t, primary_key, new_key, latest_rid, tail_rid) ==
  [t EXCEPT
     !.page_directory = DirDel(@, latest_rid),
     !.index = IndexInsert(IndexDelete(@, primary_key, latest_rid),
                           key_index, new_key, tail_rid)]

\* update, lines 580-600, with the local variables of the call in frame:
\* set_page of the tail page, the new Record in the page directory, the
\* change of the key and the two unpin_page calls
UpdateRest(t, primary_key, columns, frame) ==
  LET new_key == NewKey(primary_key, columns)
      t2 == [t EXCEPT
               !.bufferpool = set_page(@, frame.tail_page_id, frame.tail_page_data),
               !.page_directory =
                  DirPut(@, frame.tail_rid,
                         Record(frame.tail_rid, primary_key, frame.tail_page_columns)),
               !.pins = Unpinned(Unpinned(@, t.name, frame.tail_page_id),
                                 t.name, frame.base_page_id)]
  IN IF new_key # primary_key
     THEN KeyChange(t2, primary_key, new_key, frame.latest_rid, frame.tail_rid)
     ELSE t2

\* update, lines 608-610: `except Exception: return False`
Caught(error, t) == [ok |-> FALSE, error |-> error, t |-> t]

\* Query.update(primary_key, *columns) from line 499 on: [ok, error, t].
\* An exception leaves what was written before it: the page objects are written in
\* place, the buffer pool changes at set_page only, and the pages fetched
\* before it stay pinned (the unpin_page calls of lines 599-600 are not
\* reached).  rids is what line 497 read from the key index; mid is the
\* table between the two set_page calls of lines 579 and 580.
UpdateWith(t, rids, primary_key, columns) ==
  IF rids = <<>> THEN [ok |-> FALSE, error |-> "none", t |-> t]
  ELSE
    LET base_rid == rids[1]
        pr == base_rid[1]
        record_idx == base_rid[3]
        base_page_id == PageId("base", pr, base_rid[2])
        base_page_data == get_page(t.bufferpool, base_page_id)
        latest_rid == _get_latest_version(t, base_rid)
    IN
    \* line 520: page_directory[base_rid] raises KeyError
    IF ~InDirectory(t.page_directory, base_rid)
    THEN Caught("KeyError",
                [t EXCEPT !.pins = Pinned(@, t.name, base_page_id)])
    ELSE
      LET current_record ==
            IF InDirectory(t.page_directory, latest_rid)
            THEN DirGet(t.page_directory, latest_rid)
            ELSE DirGet(t.page_directory, base_rid)
          page_range == RangeWithTailRoom(t.page_ranges[pr + 1])
          tail_page_idx == Len(page_range.tail_pages) - 1
          tail_page_id == PageId("tail", pr, tail_page_idx)
          tail_page_data == get_page(t.bufferpool, tail_page_id)
          tail_page == At(page_range.tail_pages, tail_page_idx)
          schema == UpdateSchema(columns)
          tail_rid == <<pr, tail_page_idx, Len(tail_page_data.rid), "t">>
          original_key == DirGet(t.page_directory, base_rid).columns[key_index]
          tail_page_columns == TailColumns(original_key, current_record, columns)
          \* lines 565-576: the tail slot in the page object and in the data
          written ==
            [page_range EXCEPT !.tail_pages[tail_page_idx + 1] =
               PageAppend(tail_page, tail_page_columns, tail_rid, schema, latest_rid)]
          new_tail_data ==
            DataAppend(tail_page_data, tail_page_columns, tail_rid, schema, latest_rid)
          t1 == [t EXCEPT !.page_ranges[pr + 1] = written]
      IN
      \* line 578: base_page_data["indirection"][record_idx] raises IndexError
      IF record_idx >= Len(base_page_data.indirection)
      THEN Caught("IndexError",
                  [t1 EXCEPT !.pins = Pinned(Pinned(@, t.name, base_page_id),
                                             t.name, tail_page_id)])
      ELSE
        LET new_base_data ==
              [base_page_data EXCEPT !.indirection = SetAt(@, record_idx, tail_rid)]
            \* line 579: set_page of the base page, both pages pinned
            mid == [t1 EXCEPT
                      !.bufferpool = set_page(@, base_page_id, new_base_data),
                      !.pins = Pinned(Pinned(@, t.name, base_page_id),
                                      t.name, tail_page_id)]
            frame == [base_page_id |-> base_page_id, tail_page_id |-> tail_page_id,
                      tail_page_data |-> new_tail_data, tail_rid |-> tail_rid,
                      latest_rid |-> latest_rid,
                      tail_page_columns |-> tail_page_columns]
        IN [ok |-> TRUE, error |-> "none",
            t |-> UpdateRest(mid, primary_key, columns, frame),
            mid |-> mid, frame |-> frame]

\* Query.update(primary_key, *columns): [ok, error, t]
QueryUpdate(t, primary_key, columns) ==
  UpdateWith(t, locate(t.index, key_index, primary_key), primary_key, columns)

(* ---------------------- calls and transactions ----------------------- *)
\* [1] * num_columns
AllOnes == [c \in Cols |-> 1]

\* what a call returns and leaves: ok the returned value (for select:
\* whether it returned a record), refused whether acquire_lock said no,
\* locked whether it granted a lock, error the exception caught
Result(ok, refused, locked, error, t) ==
  [ok |-> ok, refused |-> refused, locked |-> locked, error |-> error, t |-> t]

\* `if self.transaction and self.lock_manager: if not acquire_lock(...)`
Refused(t, tx, key, mode) ==
  tx # NoTx /\ ~acquire_lock(t.locks, tx, key, mode)

\* the table and the transaction after the lock was granted:
\* self.transaction.locks_held.add(key)
WithLock(t, tx, key, mode) ==
  IF tx = NoTx THEN t
  ELSE [t EXCEPT !.locks = Granted(@, tx, key, mode),
                 !.locks_held[tx] = @ \cup {key}]

\* Query(table, tx).insert(*columns): the lock comes before the
\* duplicate check
InsertCall(t, tx, columns) ==
  LET key == columns[key_index] IN
  IF Refused(t, tx, key, "insert") THEN Result(FALSE, TRUE, FALSE, "none", t)
  ELSE LET r == QueryInsert(WithLock(t, tx, key, "insert"), columns)
       IN Result(r.ok, FALSE, tx # NoTx, "none", r.t)

\* Query(table, tx).delete(primary_key): a key without RID returns
\* before the lock
DeleteCall(t, tx, primary_key) ==
  IF locate(t.index, key_index, primary_key) = <<>>
  THEN Result(FALSE, FALSE, FALSE, "none", t)
  ELSE IF Refused(t, tx, primary_key, "delete")
  THEN Result(FALSE, TRUE, FALSE, "none", t)
  ELSE LET r == QueryDelete(WithLock(t, tx, primary_key, "delete"), primary_key)
       IN Result(r.ok, FALSE, tx # NoTx, "none", r.t)

\* an update that never asks the lock manager
UpdateCallUnlocked(t, tx, primary_key, columns) ==
  LET r == QueryUpdate(t, primary_key, columns)
  IN Result(r.ok, FALSE, FALSE, r.error, r.t)

\* Query(table, tx).update(primary_key, *columns)
UpdateCall(t, tx, primary_key, columns) ==
  IF locate(t.index, key_index, primary_key) = <<>>
  THEN Result(FALSE, FALSE, FALSE, "none", t)
  ELSE IF Refused(t, tx, primary_key, "update")
  THEN Result(FALSE, TRUE, FALSE, "none", t)
  ELSE LET r == QueryUpdate(WithLock(t, tx, primary_key, "update"),
                            primary_key, columns)
       IN Result(r.ok, FALSE, tx # NoTx, r.error, r.t)

\* Query(table, tx).select(search_key, search_key_index, projection):
\* [rows, refused, locked, t]; the read lock is asked for at the first RID
SelectCall(t, tx, search_key, search_key_index, projection) ==
  IF locate(t.index, search_key_index, search_key) = <<>>
  THEN [rows |-> <<>>, refused |-> FALSE, locked |-> FALSE, t |-> t]
  ELSE IF Refused(t, tx, search_key, "read")
  THEN [rows |-> <<>>, refused |-> TRUE, locked |-> FALSE, t |-> t]
  ELSE [rows |-> select(t, search_key, search_key_index, projection),
        refused |-> FALSE, locked |-> tx # NoTx,
        t |-> WithLock(t, tx, search_key, "read")]

\* increment, lines 783-788: r is what select returned; the update of the
\* column to the value read plus one, and u what it returned
IncrementResult(r, u) ==
  Result(u.ok, u.refused, r.locked \/ u.locked, u.error, u.t)
IncrementOf(r, tx, key, column) ==
  IF r.rows = <<>> THEN Result(FALSE, r.refused, r.locked, "none", r.t)
  ELSE IncrementResult(
         r, UpdateCall(r.t, tx, key,
                       [c \in Cols |-> IF c = column
                                       THEN r.rows[1].columns[column] + 1
                                       ELSE Null]))

\* Query(table, tx).increment(key, column)
IncrementCall(t, tx, key, column) ==
  IncrementOf(SelectCall(t, tx, key, key_index, AllOnes), tx, key, column)

(* ------------------------------ database ------------------------------ *)
\* the names create_table, drop_table and get_table are called with
TableNames == Tables \cup {"C"}

\* Table(name, num_columns, key_index), the id-th Table object made, with
\* the index create_table makes for every column
Table(name, id) == [name |-> name, id |-> id, indexes |-> Cols]

\* `for table in self.tables: if table.name == name`: the first position
\* of the name in the list, 0 when it has none
Registered(tbs, name) ==
  LET hits == {i \in 1..Len(tbs) : tbs[i].name = name}
  IN IF hits = {} THEN 0 ELSE CHOOSE i \in hits : \A j \in hits : i <= j

\* self.tables.pop(i)
Pop(tbs, i) == SubSeq(tbs, 1, i - 1) \o SubSeq(tbs, i + 1, Len(tbs))

\* a create_table that appends without looking for the name
create_table_unchecked(tbs, made, name) ==
  [ok |-> TRUE, ret |-> made + 1, tables |-> Append(tbs, Table(name, made + 1)),
   constructed |-> made + 1]

\* Database.create_table(name, num_columns, key_index): [ok, ret, tables,
\* constructed]; ok is FALSE when it raises, ret is the table returned
create_table(tbs, made, name) ==
  IF Registered(tbs, name) # 0
  THEN [ok |-> FALSE, ret |-> 0, tables |-> tbs, constructed |-> made]
  ELSE [ok |-> TRUE, ret |-> made + 1,
        tables |-> Append(tbs, Table(name, made + 1)), constructed |-> made + 1]

\* Database.drop_table(name)
drop_table(tbs, made, name) ==
  IF Registered(tbs, name) # 0
  THEN [ok |-> TRUE, ret |-> 0, tables |-> Pop(tbs, Registered(tbs, name)),
        constructed |-> made]
  ELSE [ok |-> FALSE, ret |-> 0, tables |-> tbs, constructed |-> made]

\* Database.get_table(name)
get_table(tbs, made, name) ==
  IF Registered(tbs, name) # 0
  THEN [ok |-> TRUE, ret |-> tbs[Registered(tbs, name)].id, tables |-> tbs,
        constructed |-> made]
  ELSE [ok |-> FALSE, ret |-> 0, tables |-> tbs, constructed |-> made]

(* ------------------------------ history ------------------------------- *)
RECURSIVE SumLen(_, _)
SumLen(pages, i) ==
  IF i > Len(pages) THEN 0 ELSE Len(pages[i].rid) + SumLen(pages, i + 1)

RECURSIVE CountSlots(_, _, _)
\* the number of slots of the base ("b") or tail ("t") page objects
CountSlots(prs, kind, i) ==
  IF i > Len(prs) THEN 0
  ELSE SumLen(IF kind = "b" THEN prs[i].base_pages ELSE prs[i].tail_pages, 1)
       + CountSlots(prs, kind, i + 1)

\* a call: the table and transaction of the Query (the name, for a call of
\* the Database), the operation, its key argument, the key the record has
\* after it, the returned value, whether a lock was refused, the exception
\* caught and the table returned
Call(tb, tx, op, key, new_key, ok, refused, error, ret) ==
  [tb |-> tb, tx |-> tx, op |-> op, key |-> key, new_key |-> new_key,
   ok |-> ok, refused |-> refused, error |-> error, ret |-> ret]

\* what makes two calls the same operation of the same transaction
SameCall(c) == [tb |-> c.tb, tx |-> c.tx, op |-> c.op, key |-> c.key]
NoCall == [tb |-> "A", tx |-> NoTx, op |-> "none", key |-> 0]

\* history: the call c as `last` keeps it.  A release_all that follows a
\* refused call remembers that call (pending); retry says that c is the
\* call a release_all left pending, made when no other transaction holds
\* a lock on its key
Noted(c) ==
  [tb |-> c.tb, tx |-> c.tx, op |-> c.op, key |-> c.key, new_key |-> c.new_key,
   ok |-> c.ok, refused |-> c.refused, error |-> c.error, ret |-> c.ret,
   pending |-> IF c.op = "release_all" /\ last.refused THEN SameCall(last)
               ELSE NoCall,
   retry |-> /\ last.op = "release_all"
             /\ last.pending = SameCall(c)
             /\ \A l \in locks : l[1] = c.key => l[2] = c.tx]

\* history: the first live record whose current key is k; 0 when none
LiveRec(rs, k) ==
  LET hits == {i \in 1..Len(rs) : rs[i].live /\ rs[i].key = k}
  IN IF hits = {} THEN 0 ELSE CHOOSE i \in hits : \A j \in hits : i <= j

\* history: the image a caller expects after update(columns) of an image
Overlay(image, columns) ==
  [c \in Cols |-> IF columns[c] # Null THEN columns[c] ELSE image[c]]

LatestImage(r) == r.images[Len(r.images)]

RecsAfterInsert(rs, columns, rid) ==
  Append(rs, [key |-> columns[key_index], images |-> <<columns>>, writes |-> <<>>,
              live |-> TRUE, rekeyed |-> FALSE, base |-> rid])

RecsAfterUpdate(rs, k, columns) ==
  LET i == LiveRec(rs, k) IN
  IF i = 0 THEN rs
  ELSE LET image == Overlay(LatestImage(rs[i]), columns) IN
       [rs EXCEPT ![i] = [@ EXCEPT !.images = Append(@, image),
                                   !.writes = Append(@, columns),
                                   !.key = image[key_index],
                                   !.rekeyed = @ \/ image[key_index] # k]]

\* history: increment(k, c) raises column c of the latest image by one
RecsAfterIncrement(rs, k, c) ==
  LET i == LiveRec(rs, k) IN
  IF i = 0 THEN rs
  ELSE RecsAfterUpdate(rs, k, [d \in Cols |->
                                 IF d = c THEN LatestImage(rs[i])[c] + 1 ELSE Null])

RecsAfterDelete(rs, k) ==
  LET i == LiveRec(rs, k) IN
  IF i = 0 THEN rs ELSE [rs EXCEPT ![i].live = FALSE]

(* ------------------------------ actions ------------------------------- *)
\* a new table: no page range, no page data, an empty index per column
NewTable ==
  [page_ranges |-> <<>>, bufferpool |-> <<>>, page_directory |-> <<>>,
   index |-> EmptyIndex, merge_counter |-> 0, merges |-> 0]

\* the callers of a Query, and a caller that is in no call
Callers == Txs \cup {NoTx}
Idle == [pc |-> "idle"]

\* Database() and create_table of the tables A and B
Init ==
  /\ page_ranges = NewTable.page_ranges
  /\ bufferpool = NewTable.bufferpool
  /\ page_directory = NewTable.page_directory
  /\ index = NewTable.index
  /\ merge_counter = NewTable.merge_counter
  /\ merges = NewTable.merges
  /\ other = NewTable
  /\ locks = {}
  /\ locks_held = [tx \in Txs |-> {}]
  /\ pins = <<>>
  /\ tables = <<Table("A", 1), Table("B", 2)>>
  /\ constructed = 2
  /\ last = [tb |-> "A", tx |-> NoTx, op |-> "init", key |-> 0, new_key |-> 0,
             ok |-> TRUE, refused |-> FALSE, error |-> "none", ret |-> 0,
             pending |-> NoCall, retry |-> FALSE]
  /\ recs = <<>>
  /\ held_in = {}
  /\ made_as = [name \in TableNames |->
                  IF Registered(tables, name) # 0
                  THEN tables[Registered(tables, name)].id ELSE 0]
  /\ running = [tx \in Callers |-> Idle]
  /\ removed = {}

Install(t) ==
  /\ page_ranges' = t.page_ranges
  /\ bufferpool' = t.bufferpool
  /\ page_directory' = t.page_directory
  /\ index' = t.index

\* the table tb, and the database, as a call leaves them; mc and mg are
\* the table's merge counter and number of merges after the call
InstallIn(tb, t, mc, mg) ==
  /\ IF tb = "A"
     THEN /\ Install(t)
          /\ merge_counter' = mc
          /\ merges' = mg
          /\ UNCHANGED other
     ELSE /\ other' = [page_ranges |-> t.page_ranges, bufferpool |-> t.bufferpool,
                       page_directory |-> t.page_directory, index |-> t.index,
                       merge_counter |-> mc, merges |-> mg]
          /\ UNCHANGED <<page_ranges, bufferpool, page_directory, index,
                         merge_counter, merges>>
  /\ locks' = t.locks
  /\ locks_held' = t.locks_held
  /\ pins' = t.pins

MergeCounter(tb) == IF tb = "A" THEN merge_counter ELSE other.merge_counter
Merges(tb) == IF tb = "A" THEN merges ELSE other.merges

\* the base ("b") or tail ("t") slots of the two tables together
Slots(kind) ==
  CountSlots(page_ranges, kind, 1) + CountSlots(other.page_ranges, kind, 1)

\* history: the lock the call was granted, with its table
HeldAfter(tb, tx, key, locked) ==
  IF locked THEN held_in \cup {<<tx, tb, key>>} ELSE held_in

\* Query(tb, tx).insert(*columns)
InsertAs(tb, tx, columns, bound) ==
  /\ Slots("b") < bound
  /\ LET r == InsertCall(TblOf(tb), tx, columns) IN
       /\ InstallIn(tb, r.t, MergeCounter(tb), Merges(tb))
       /\ last' = Noted(Call(tb, tx, "insert", columns[key_index], columns[key_index],
                       r.ok, r.refused, r.error, 0))
       /\ recs' = IF r.ok /\ tb = "A"
                  THEN RecsAfterInsert(recs, columns,
                         r.t.page_directory[Len(r.t.page_directory)].rid)
                  ELSE recs
       /\ held_in' = HeldAfter(tb, tx, columns[key_index], r.locked)
  /\ UNCHANGED <<tables, constructed, made_as, running, removed>>

\* a counter that counts the failed updates too
CounterAfterAnyUpdate(mc, ok) ==
  IF mc + 1 >= MERGE_THRESHOLD THEN 0 ELSE mc + 1

\* update, lines 602-605: the merge counter after a successful update;
\* Table.trigger_merge only schedules the background merge
CounterAfter(mc, ok) ==
  IF ~ok THEN mc ELSE IF mc + 1 >= MERGE_THRESHOLD THEN 0 ELSE mc + 1
MergesAfter(mc, mg, ok) ==
  IF ok /\ mc + 1 >= MERGE_THRESHOLD THEN mg + 1 ELSE mg

\* Query(tb, tx).update(primary_key, *columns)
UpdateAs(tb, tx, primary_key, columns, bound) ==
  /\ Slots("t") < bound
  /\ \A i \in DOMAIN pins : pins[i] < MaxPins
  /\ LET r == UpdateCall(TblOf(tb), tx, primary_key, columns) IN
       /\ InstallIn(tb, r.t, CounterAfter(MergeCounter(tb), r.ok),
                    MergesAfter(MergeCounter(tb), Merges(tb), r.ok))
       /\ last' = Noted(Call(tb, tx, "update", primary_key,
                       NewKey(primary_key, columns), r.ok, r.refused, r.error, 0))
       /\ recs' = IF r.ok /\ tb = "A"
                  THEN RecsAfterUpdate(recs, primary_key, columns) ELSE recs
       /\ held_in' = HeldAfter(tb, tx, primary_key, r.locked)
  /\ UNCHANGED <<tables, constructed, made_as, running, removed>>

\* Query(tb, tx).delete(primary_key)
DeleteAs(tb, tx, primary_key) ==
  /\ LET r == DeleteCall(TblOf(tb), tx, primary_key) IN
       /\ InstallIn(tb, r.t, MergeCounter(tb), Merges(tb))
       /\ last' = Noted(Call(tb, tx, "delete", primary_key, primary_key,
                       r.ok, r.refused, r.error, 0))
       /\ recs' = IF r.ok /\ tb = "A" THEN RecsAfterDelete(recs, primary_key)
                  ELSE recs
       /\ held_in' = HeldAfter(tb, tx, primary_key, r.locked)
  /\ UNCHANGED <<tables, constructed, made_as, running, removed>>

\* Query(tb, tx).select(search_key, key column, all ones)
SelectAs(tb, tx, search_key) ==
  /\ LET r == SelectCall(TblOf(tb), tx, search_key, key_index, AllOnes) IN
       /\ InstallIn(tb, r.t, MergeCounter(tb), Merges(tb))
       /\ last' = Noted(Call(tb, tx, "select", search_key, search_key,
                       r.rows # <<>>, r.refused, "none", 0))
       /\ held_in' = HeldAfter(tb, tx, search_key, r.locked)
  /\ UNCHANGED <<tables, constructed, recs, made_as, running, removed>>

\* the table, the last call and the history after an increment returned r
IncrementReturned(tb, tx, key, column, r) ==
  LET new_key == IF column = key_index /\ r.ok /\ LiveRec(recs, key) # 0
                 THEN LatestImage(recs[LiveRec(recs, key)])[key_index] + 1
                 ELSE key
  IN
    /\ InstallIn(tb, r.t, CounterAfter(MergeCounter(tb), r.ok),
                 MergesAfter(MergeCounter(tb), Merges(tb), r.ok))
    /\ last' = Noted(Call(tb, tx, "increment", key, new_key, r.ok, r.refused,
                    r.error, 0))
    /\ recs' = IF r.ok /\ tb = "A" THEN RecsAfterIncrement(recs, key, column)
               ELSE recs
    /\ held_in' = HeldAfter(tb, tx, key, r.locked)

\* Query(tb, tx).increment(key, column)
IncrementAs(tb, tx, key, column, bound) ==
  /\ Slots("t") < bound
  /\ \A i \in DOMAIN pins : pins[i] < MaxPins
  /\ IncrementReturned(tb, tx, key, column,
                       IncrementCall(TblOf(tb), tx, key, column))
  /\ UNCHANGED <<tables, constructed, made_as, running, removed>>

\* the transaction ends: LockManager.release_all(tx_id)
ReleaseAll(tx) ==
  /\ locks' = release_all(locks, tx)
  /\ locks_held' = [locks_held EXCEPT ![tx] = {}]
  /\ held_in' = {h \in held_in : h[1] # tx}
  /\ last' = Noted(Call("A", tx, "release_all", 0, 0, TRUE, FALSE, "none", 0))
  /\ UNCHANGED <<page_ranges, bufferpool, page_directory, index, merge_counter,
                 merges, other, pins, tables, constructed, recs, made_as,
                 running, removed>>

\* the calls without a transaction on the table A
Insert(columns) == InsertAs("A", NoTx, columns, MaxBase)
Update(primary_key, columns) == UpdateAs("A", NoTx, primary_key, columns, MaxTail)
Delete(primary_key) == DeleteAs("A", NoTx, primary_key)

\* an update that supplies no key: the record keeps its key
UpdateSameKey(primary_key, columns) ==
  /\ columns[key_index] = Null
  /\ UpdateAs("A", NoTx, primary_key, columns, MaxChain)

Increment(key, column) == IncrementAs("A", NoTx, key, column, MaxChain)

Next ==
  \/ \E columns \in Rows : Insert(columns)
  \/ \E k \in Keys, columns \in UpdateRows : Update(k, columns)
  \/ \E k \in Keys : Delete(k)

Spec == Init /\ [][Next]_vars

\* the runs whose updates never supply a key
NextChain ==
  \/ \E columns \in Rows : Insert(columns)
  \/ \E k \in Keys, columns \in UpdateRows : UpdateSameKey(k, columns)
  \/ \E k \in Keys : Delete(k)

SpecChain == Init /\ [][NextChain]_vars

\* the runs of insert, increment and delete
NextInc ==
  \/ \E columns \in Rows : Insert(columns)
  \/ \E k \in Keys, c \in Cols : Increment(k, c)
  \/ \E k \in Keys : Delete(k)

SpecInc == Init /\ [][NextInc]_vars

\* the runs on a table of at most MaxLongBase records whose tail grows to
\* MaxLongTail slots: the third update of a record whose key changed
\* reads the base indirection at the slot number of a tail RID
InsertFew(columns) == InsertAs("A", NoTx, columns, MaxLongBase)
UpdateLong(primary_key, columns) ==
  UpdateAs("A", NoTx, primary_key, columns, MaxLongTail)

NextLong ==
  \/ \E columns \in Rows : InsertFew(columns)
  \/ \E k \in Keys, columns \in UpdateRows : UpdateLong(k, columns)
  \/ \E k \in Keys : Delete(k)

SpecLong == Init /\ [][NextLong]_vars

\* the calls of transactions on the two tables
\* an insert is offered when it leaves at most MaxTxBase base records
TxInsert(tb, tx, columns) ==
  /\ InsertAs(tb, tx, columns, MaxTxBase + 1)
  /\ Slots("b")' <= MaxTxBase
TxUpdate(tb, tx, primary_key, columns) ==
  UpdateAs(tb, tx, primary_key, columns, MaxTxTail)
TxDelete(tb, tx, primary_key) == DeleteAs(tb, tx, primary_key)
TxSelect(tb, tx, search_key) == SelectAs(tb, tx, search_key)

NextTx ==
  \/ \E tb \in Tables, tx \in Txs, columns \in Rows : TxInsert(tb, tx, columns)
  \/ \E tb \in Tables, tx \in Txs, k \in Keys, columns \in FewRows :
       TxUpdate(tb, tx, k, columns)
  \/ \E tb \in Tables, tx \in Txs, k \in Keys : TxDelete(tb, tx, k)
  \/ \E tb \in Tables, tx \in Txs, k \in Keys : TxSelect(tb, tx, k)
  \/ \E tx \in Txs : ReleaseAll(tx)

SpecTx == Init /\ [][NextTx]_vars

\* Query(A, tx).select(search_key, search_key_index, all ones): a select
\* of a transaction on any column; the read lock is asked for the value
\* searched for (lines 142-147)
SelectOn(tx, search_key, search_key_index) ==
  /\ LET r == SelectCall(TblOf("A"), tx, search_key, search_key_index, AllOnes) IN
       /\ InstallIn("A", r.t, MergeCounter("A"), Merges("A"))
       /\ last' = Noted(Call("A", tx, "select", search_key, search_key,
                       r.rows # <<>>, r.refused, "none", 0))
       /\ held_in' = HeldAfter("A", tx, search_key, r.locked)
  /\ UNCHANGED <<tables, constructed, recs, made_as, running, removed>>

\* the calls of transactions on the table A, with selects on every column
NextRead ==
  \/ \E tx \in Txs, columns \in Rows : TxInsert("A", tx, columns)
  \/ \E tx \in Txs, k \in Keys, columns \in FewRows : TxUpdate("A", tx, k, columns)
  \/ \E tx \in Txs, k \in Keys : TxDelete("A", tx, k)
  \/ \E tx \in Txs, c \in Cols : \E v \in ColDomain(c) : SelectOn(tx, v, c)
  \/ \E tx \in Txs : ReleaseAll(tx)

SpecRead == Init /\ [][NextRead]_vars

(* ------------------------ calls made step by step ---------------------- *)
\* update and delete of a transaction on the table A as three steps that
\* other transactions' steps may come between: the read of the key index
\* (lines 497 / 35), the request of the lock (502-507 / 39-45) and the rest
\* of the call
NoColumns == [c \in Cols |-> Null]

\* the tail slots that the updates under way will still append
UnderWay == Cardinality({tx \in Callers : running[tx].pc # "idle" /\ running[tx].op = "update"})

\* lines 497-500 / 35-37: rids = index.locate(key, primary_key); no RID
\* returns False
Locate(tx, op, primary_key, columns) ==
  /\ running[tx] = Idle
  /\ op = "update" => /\ Slots("t") + UnderWay < MaxRaceTail
                      /\ \A i \in DOMAIN pins : pins[i] + UnderWay < MaxPins
  /\ op = "delete" => columns = NoColumns
  /\ LET rids == locate(index, key_index, primary_key) IN
       IF rids = <<>>
       THEN /\ last' = Noted(Call("A", tx, op, primary_key,
                             NewKey(primary_key, columns), FALSE, FALSE, "none", 0))
            /\ UNCHANGED running
       ELSE /\ running' = [running EXCEPT ![tx] =
                             [pc |-> "lock", op |-> op, key |-> primary_key,
                              columns |-> columns, rids |-> rids]]
            /\ UNCHANGED last
  /\ UNCHANGED <<page_ranges, bufferpool, page_directory, index, merge_counter,
                 merges, other, locks, locks_held, pins, tables, constructed,
                 recs, held_in, made_as, removed>>

\* lines 502-507 / 39-45: a refused lock returns False, a granted one is
\* added to the transaction's locks_held
Acquire(tx) ==
  /\ running[tx].pc = "lock"
  /\ LET call == running[tx] IN
       IF Refused(Tbl, tx, call.key, call.op)
       THEN /\ last' = Noted(Call("A", tx, call.op, call.key,
                             NewKey(call.key, call.columns), FALSE, TRUE, "none", 0))
            /\ running' = [running EXCEPT ![tx] = Idle]
            /\ UNCHANGED <<locks, locks_held, held_in>>
       ELSE /\ locks' = WithLock(Tbl, tx, call.key, call.op).locks
            /\ locks_held' = WithLock(Tbl, tx, call.key, call.op).locks_held
            /\ held_in' = HeldAfter("A", tx, call.key, TRUE)
            /\ running' = [running EXCEPT ![tx].pc = "mutate"]
            /\ UNCHANGED last
  /\ UNCHANGED <<page_ranges, bufferpool, page_directory, index, merge_counter,
                 merges, other, pins, tables, constructed, recs, made_as, removed>>

\* what the rest of the call returns, with the RIDs read at the first step
Mutated(t, call) ==
  IF call.op = "delete"
  THEN LET r == DeleteWith(t, call.rids, call.key)
       IN [ok |-> r.ok, error |-> "none", t |-> r.t]
  ELSE LET r == UpdateWith(t, call.rids, call.key, call.columns)
       IN [ok |-> r.ok, error |-> r.error, t |-> r.t]

\* lines 509-610 / 47-84: the rest of the call, and its return
Mutate(tx) ==
  /\ running[tx].pc = "mutate"
  /\ LET call == running[tx]
         r == Mutated(Tbl, call)
         counted == call.op = "update" /\ r.ok
     IN
       /\ InstallIn("A", r.t, CounterAfter(merge_counter, counted),
                    MergesAfter(merge_counter, merges, counted))
       /\ last' = Noted(Call("A", tx, call.op, call.key,
                        NewKey(call.key, call.columns), r.ok, FALSE, r.error, 0))
       /\ recs' = IF ~r.ok THEN recs
                  ELSE IF call.op = "delete" THEN RecsAfterDelete(recs, call.key)
                  ELSE RecsAfterUpdate(recs, call.key, call.columns)
       /\ removed' = IF call.op = "delete" /\ r.ok
                     THEN removed \cup {<<tx, call.rids[1]>>} ELSE removed
       /\ running' = [running EXCEPT ![tx] = Idle]
  /\ UNCHANGED <<tables, constructed, held_in, made_as>>

\* an insert without a transaction, and the end of a transaction that is
\* in no call
RaceInsert(columns) == InsertAs("A", NoTx, columns, MaxRaceBase)
RaceRelease(tx) ==
  /\ running[tx] = Idle
  /\ ReleaseAll(tx)

\* one transaction makes the updates, another the deletes
Updater == 1
Deleter == 2

NextRace ==
  \/ \E columns \in Rows : RaceInsert(columns)
  \/ \E k \in Keys, columns \in FewRows : Locate(Updater, "update", k, columns)
  \/ \E k \in Keys : Locate(Deleter, "delete", k, NoColumns)
  \/ \E tx \in Txs : Acquire(tx)
  \/ \E tx \in Txs : Mutate(tx)
  \/ \E tx \in Txs : RaceRelease(tx)

SpecRace == Init /\ [][NextRace]_vars

(* ------------------- update as two buffer pool steps ------------------- *)
\* Query.update of the table A up to the set_page of the base page (line
\* 579); an update that returns False before it is one step
UpdateBegin(primary_key, columns) ==
  /\ running[NoTx] = Idle
  /\ Slots("t") < MaxStepTail
  /\ \A i \in DOMAIN pins : pins[i] < MaxPins
  /\ LET r == QueryUpdate(Tbl, primary_key, columns) IN
       IF r.ok
       THEN /\ InstallIn("A", r.mid, merge_counter, merges)
            /\ running' = [running EXCEPT ![NoTx] =
                             [pc |-> "set_tail", op |-> "update", key |-> primary_key,
                              columns |-> columns, frame |-> r.frame]]
            /\ UNCHANGED last
       ELSE /\ InstallIn("A", r.t, merge_counter, merges)
            /\ last' = Noted(Call("A", NoTx, "update", primary_key,
                             NewKey(primary_key, columns), FALSE, FALSE, r.error, 0))
            /\ UNCHANGED running
  /\ UNCHANGED <<tables, constructed, recs, held_in, made_as, removed>>

\* Query.update from the set_page of the tail page on (lines 580-606)
UpdateEnd ==
  /\ running[NoTx].pc = "set_tail"
  /\ LET call == running[NoTx] IN
       /\ InstallIn("A", UpdateRest(Tbl, call.key, call.columns, call.frame),
                    CounterAfter(merge_counter, TRUE),
                    MergesAfter(merge_counter, merges, TRUE))
       /\ last' = Noted(Call("A", NoTx, "update", call.key,
                        NewKey(call.key, call.columns), TRUE, FALSE, "none", 0))
       /\ recs' = RecsAfterUpdate(recs, call.key, call.columns)
  /\ running' = [running EXCEPT ![NoTx] = Idle]
  /\ UNCHANGED <<tables, constructed, held_in, made_as, removed>>

\* an insert and a delete between two updates
StepInsert(columns) ==
  /\ running[NoTx] = Idle
  /\ InsertAs("A", NoTx, columns, MaxStepBase)
StepDelete(primary_key) ==
  /\ running[NoTx] = Idle
  /\ DeleteAs("A", NoTx, primary_key)

NextSteps ==
  \/ \E columns \in Rows : StepInsert(columns)
  \/ \E k \in Keys, columns \in UpdateRows : UpdateBegin(k, columns)
  \/ UpdateEnd
  \/ \E k \in Keys : StepDelete(k)

SpecSteps == Init /\ [][NextSteps]_vars

\* Database.create_table / drop_table / get_table
DatabaseCall(op, name, r) ==
  /\ tables' = r.tables
  /\ constructed' = r.constructed
  /\ last' = Noted(Call(name, NoTx, op, 0, 0, r.ok, FALSE,
                  IF r.ok THEN "none" ELSE "Exception", r.ret))
  /\ made_as' = IF ~r.ok \/ op = "get_table" THEN made_as
                ELSE [made_as EXCEPT ![name] = r.ret]
  /\ UNCHANGED <<page_ranges, bufferpool, page_directory, index, merge_counter,
                 merges, other, locks, locks_held, pins, recs, held_in,
                 running, removed>>

CreateTable(name) ==
  /\ constructed < MaxCreate
  /\ DatabaseCall("create_table", name, create_table(tables, constructed, name))

DropTable(name) ==
  DatabaseCall("drop_table", name, drop_table(tables, constructed, name))

GetTable(name) ==
  DatabaseCall("get_table", name, get_table(tables, constructed, name))

NextDb ==
  \/ \E name \in TableNames : CreateTable(name)
  \/ \E name \in TableNames : DropTable(name)
  \/ \E name \in TableNames : GetTable(name)

SpecDb == Init /\ [][NextDb]_vars

(* ------------------------------- claims ------------------------------- *)
\* the columns of the records a read returned
ColumnsOf(result) == [i \in 1..Len(result) |-> result[i].columns]

\* select(k, key_col, all ones) and select_version(k, key_col, all ones, v)
SelectKey(k) == ColumnsOf(select(Tbl, k, key_index, AllOnes))
SelectVersionKey(k, v) == ColumnsOf(select_version(Tbl, k, key_index, AllOnes, v))

\* record i of the history is live and no other live record has its key
SoleLive(i) ==
  /\ recs[i].live
  /\ \A j \in 1..Len(recs) : j # i /\ recs[j].live => recs[j].key # recs[i].key

\* the number of successful updates of record i
Updates(i) == Len(recs[i].images) - 1

\* C1: after any sequence of successful updates to a live key k, select(k,
\* key_col, all ones) returns exactly one record, whose columns are the
\* values most recently written by the insert or by an update of k.
C1_SelectReturnsLatestWrites ==
  \A i \in 1..Len(recs) :
    SoleLive(i) /\ ~recs[i].rekeyed =>
      SelectKey(recs[i].key) = <<LatestImage(recs[i])>>

\* the image k steps back from the latest of record i, the base image when
\* the record has fewer than k updates
StepsBack(i, k) ==
  IF k <= Updates(i) THEN recs[i].images[Len(recs[i].images) - k]
  ELSE recs[i].images[1]

\* C2: for every live key with n updates and every k >= 2,
\* select_version(key, key_col, all ones, -k) returns the version k steps
\* back from the latest one when n >= k, and the base image when n < k.
C2_VersionStepsBack ==
  \A i \in 1..Len(recs) :
    SoleLive(i) /\ ~recs[i].rekeyed =>
      \A k \in 2..(MaxChain + 1) :
        SelectVersionKey(recs[i].key, -k) = <<StepsBack(i, k)>>

\* record i was updated exactly three times, each time with only the
\* non-key column c supplied
ThreeWritesOf(i, c) ==
  /\ Len(recs[i].writes) = 3
  /\ \A j \in 1..3 : \A d \in Cols : (recs[i].writes[j][d] # Null) <=> (d = c)

\* C3: after an insert and three updates setting one non-key column to a1,
\* a2, a3, select_version on all columns returns that column as a3 for
\* version 0, as inserted for version -1 and as a2 for version -2, the
\* other columns being the inserted ones.
C3_ThreeUpdatesVersions ==
  \A i \in 1..Len(recs) : \A c \in Cols \ {key_index} :
    SoleLive(i) /\ ThreeWritesOf(i, c) =>
      LET inserted == recs[i].images[1]
          k == recs[i].key
      IN /\ SelectVersionKey(k, 0) = <<[inserted EXCEPT ![c] = recs[i].writes[3][c]]>>
         /\ SelectVersionKey(k, -1) = <<inserted>>
         /\ SelectVersionKey(k, -2) = <<[inserted EXCEPT ![c] = recs[i].writes[2][c]]>>

\* C4: for every live key k, after any number of updates,
\* select_version(k, key_col, all ones, -1) returns the base image: the
\* column values given to the insert that created the record.
C4_VersionMinusOneIsBase ==
  \A i \in 1..Len(recs) :
    SoleLive(i) => SelectVersionKey(recs[i].key, -1) = <<recs[i].images[1]>>

\* C5: whenever insert(r) returns True, the select(r.key, key_col, all
\* ones) that follows returns exactly one record, whose columns are r.
C5_InsertThenSelect ==
  last.op = "insert" /\ last.ok =>
    SelectKey(last.key) = <<recs[Len(recs)].images[1]>>

\* C6: an insert whose key already has a RID in the key index returns False
\* and leaves the page ranges, the page directory and the index unchanged;
\* so an insert that follows a successful insert of the same key returns
\* False.
C6_DuplicateInsertRejected ==
  [][ /\ (last'.op = "insert" /\ locate(index, key_index, last'.key) # <<>>) =>
           /\ ~last'.ok
           /\ UNCHANGED <<page_ranges, page_directory, index>>
      /\ (last.op = "insert" /\ last.ok /\ last'.op = "insert"
            /\ last'.key = last.key) => ~last'.ok ]_vars

\* a duplicate insert has been made and refused
C6_Witness ==
  /\ last.op = "insert" /\ ~last.ok
  /\ locate(index, key_index, last.key) # <<>>
  /\ \E i \in 1..Len(recs) : recs[i].live /\ recs[i].key = last.key

\* C7: after delete(k) returned True and until k is a key again: the key
\* index has no RID for k, the indirection of the record's base slot is the
\* tombstone, its base RID is not in the page directory, select and
\* select_version (v <= 0) of k return [] and delete(k) returns False.
C7_DeletedStaysDeleted ==
  \A i \in 1..Len(recs) :
    ~recs[i].live /\ LiveRec(recs, recs[i].key) = 0 =>
      LET k == recs[i].key
          b == recs[i].base
      IN /\ locate(index, key_index, k) = <<>>
         /\ At(PageOf(Tbl, b).indirection, b[3]) = EmptyInd
         /\ ~InDirectory(page_directory, b)
         /\ SelectKey(k) = <<>>
         /\ \A v \in {0, -1, -2} : SelectVersionKey(k, v) = <<>>
         /\ ~QueryDelete(Tbl, k).ok

\* the indirection of the slot a RID names, in the buffer pool's pages
IndirectionOf(rid) ==
  LET indirections == get_page(bufferpool, PageIdOf(rid)).indirection
  IN IF rid[3] < Len(indirections) THEN At(indirections, rid[3]) ELSE NoneInd

RECURSIVE ChainEnds(_, _, _)
\* following the indirection pointers from rid ends at none or deleted
\* within `left` further steps, without meeting a RID of `seen`
ChainEnds(rid, seen, left) ==
  LET next == IndirectionOf(rid) IN
  IF next = NoneInd \/ next = EmptyInd THEN TRUE
  ELSE IF left = 0 \/ next \in seen THEN FALSE
  ELSE ChainEnds(next, seen \cup {next}, left - 1)

\* the RIDs of the base slots
BaseRids ==
  {page_ranges[p].base_pages[g].rid[i] :
     <<p, g, i>> \in {x \in (1..Len(page_ranges)) \X (1..RANGE_BASE_PAGES)
                              \X (1..PAGE_CAPACITY) :
                        /\ x[2] <= Len(page_ranges[x[1]].base_pages)
                        /\ x[3] <= Len(page_ranges[x[1]].base_pages[x[2]].rid)}}

\* C8: for every base RID b, following the indirection pointers from b's
\* slot reaches a slot whose indirection is none or deleted within (number
\* of tail records + 1) steps and visits no RID twice.
C8_ChainsAcyclic ==
  \A b \in BaseRids :
    ChainEnds(b, {b}, CountSlots(page_ranges, "t", 1) + 1)

\* C9: for every key k of a live record, index.locate(key_col, k) is
\* non-empty and the key column of the record's resolved latest version
\* is k.
C9_LiveKeyIndexed ==
  \A i \in 1..Len(recs) :
    SoleLive(i) =>
      LET rids == locate(index, key_index, recs[i].key) IN
        /\ rids # <<>>
        /\ \A j \in 1..Len(rids) :
             _get_column_value(Tbl, _safely_get_latest_version(Tbl, rids[j]),
                               key_index) = recs[i].key

\* C10: after a successful update that changes a record's key from k to
\* k2: the key index has no entry for k and exactly one for k2, select(k)
\* returns [] and select(k2) returns the updated row, whose key is k2.
C10_KeyChange ==
  (/\ last.op = "update" /\ last.ok /\ last.new_key # last.key
   /\ LiveRec(recs, last.new_key) # 0
   /\ SoleLive(LiveRec(recs, last.new_key))
   /\ LiveRec(recs, last.key) = 0) =>
     /\ locate(index, key_index, last.key) = <<>>
     /\ Len(locate(index, key_index, last.new_key)) = 1
     /\ SelectKey(last.key) = <<>>
     /\ SelectKey(last.new_key) = <<LatestImage(recs[LiveRec(recs, last.new_key)])>>

RECURSIVE SumOver(_, _, _)
\* the sum of f[k] over the keys k of S that are at least `from`
SumOver(S, f, from) ==
  IF \A k \in S : k < from THEN 0
  ELSE (IF from \in S THEN f[from] ELSE 0) + SumOver(S, f, from + 1)

\* the current keys of the live records, lo..hi
LiveKeys(lo, hi) == {k \in lo..hi : LiveRec(recs, k) # 0}

\* every live record has a key of its own
LiveKeysDistinct == \A i \in 1..Len(recs) : recs[i].live => SoleLive(i)

\* C12: for all lo <= hi and every column c, sum(lo, hi, c) is the sum of
\* column c of the latest version of the live records whose current key is
\* in lo..hi, each counted once, also after key-changing updates; it is
\* False when the key index has no entry in the range.
C12_SumOfLatest ==
  LiveKeysDistinct =>
    \A lo \in Keys, hi \in Keys, c \in Cols :
      lo <= hi =>
        sum(Tbl, lo, hi, c) =
          IF locate_range(index, lo, hi, key_index) = <<>> THEN NoRecords
          ELSE Summed(SumOver(LiveKeys(lo, hi),
                              [k \in Keys |->
                                 IF LiveRec(recs, k) = 0 THEN 0
                                 ELSE LatestImage(recs[LiveRec(recs, k)])[c]],
                              1))

\* the versions the aggregate is compared on
Versions == {0, -1, -2, -3}

\* C13: for every range, column c and version v <= 0, sum_version(lo, hi,
\* c, v) is the sum over the live keys k of lo..hi of column c of the record
\* select_version(k, key_col, all ones, v) returns, and 0 when no key
\* matches.
C13_SumVersionIsSelectVersion ==
  LiveKeysDistinct =>
    \A lo \in Keys, hi \in Keys, c \in Cols, v \in Versions :
      lo <= hi =>
        sum_version(Tbl, lo, hi, c, v) =
          SumOver(LiveKeys(lo, hi),
                  [k \in Keys |->
                     IF SelectVersionKey(k, v) = <<>> THEN 0
                     ELSE SelectVersionKey(k, v)[1][c]],
                  1)

\* another transaction holds an exclusive lock / any lock on the key
OthersExclusive(tx, key) ==
  \E l \in locks : l[1] = key /\ l[2] # tx /\ l[3] = "X"
OthersHold(tx, key) == \E l \in locks : l[1] = key /\ l[2] # tx

\* what the same call returns when the Query has no transaction: True or
\* False, for select whether it returns a record
WithoutTx(tb, op, key) ==
  IF op = "insert"
  THEN QueryInsert(TblOf(tb), [c \in Cols |-> IF c = key_index THEN key ELSE 0]).ok
  ELSE IF op = "update"
  THEN QueryUpdate(TblOf(tb), key, [c \in Cols |-> Null]).ok
  ELSE IF op = "delete" THEN QueryDelete(TblOf(tb), key).ok
  ELSE select(TblOf(tb), key, key_index, AllOnes) # <<>>

\* the calls that take a lock
Locking == {"insert", "update", "delete", "select"}

\* while another transaction holds an exclusive lock on its key, a call
\* returns False (select: []) and changes no page, page directory or index
RefusedWhileLocked ==
  (last'.tx # NoTx /\ last'.op \in Locking
     /\ OthersExclusive(last'.tx, last'.key)) =>
    /\ ~last'.ok
    /\ UNCHANGED <<page_ranges, bufferpool, page_directory, index, other>>

C14_IncrementAddsOne ==
  last.op = "increment" =>
    /\ ~last.ok => LiveRec(recs, last.key) = 0
    /\ (last.ok /\ last.new_key = last.key) =>
         /\ LiveRec(recs, last.key) # 0
         /\ SelectKey(last.key) = <<LatestImage(recs[LiveRec(recs, last.key)])>>

\* the base indirection of a slot in a buffer pool
BaseIndirection(bp, rid) ==
  LET indirections == get_page(bp, PageIdOf(rid)).indirection
  IN IF rid[3] < Len(indirections) THEN At(indirections, rid[3]) ELSE NoneInd

\* the RIDs of the tail slots of the page objects
TailRids(prs) ==
  {prs[x[1]].tail_pages[x[2]].rid[x[3]] :
     x \in {y \in (1..Len(prs)) \X (1..(MaxTail + MaxChain)) \X (1..PAGE_CAPACITY) :
              /\ y[2] <= Len(prs[y[1]].tail_pages)
              /\ y[3] <= Len(prs[y[1]].tail_pages[y[2]].rid)}}

\* C15: an update that returns False has appended no tail slot, changed no
\* base indirection and left the page directory and the index as they
\* were; an update that returns True has appended exactly one tail slot,
\* to which the base indirection of the record points.
C15_UpdateAllOrNothing ==
  [][ last'.op = "update" =>
        IF last'.ok
        THEN /\ Slots("t")' = Slots("t") + 1
             /\ \E b \in BaseRids :
                  /\ BaseIndirection(bufferpool', b) \in TailRids(page_ranges')
                  /\ BaseIndirection(bufferpool', b) \notin TailRids(page_ranges)
        ELSE /\ Slots("t")' = Slots("t")
             /\ UNCHANGED <<page_ranges, page_directory, index>>
             /\ \A b \in BaseRids :
                  BaseIndirection(bufferpool', b) = BaseIndirection(bufferpool, b) ]_vars

\* the versions select_version is called with: 0 and below, and None
VersionArgs == Versions \cup {NoVersion}

\* C16: no call lets an exception escape: an update (or increment) that
\* meets an internal error returns False, and select_version returns []
\* rather than a record of default values when resolving the version
\* fails.
C16_ErrorsReturnFailure ==
  /\ last.error # "none" => ~last.ok
  /\ \A k \in Keys, v \in VersionArgs :
       VersionFails(Tbl, k, key_index, v) =>
         select_version(Tbl, k, key_index, AllOnes, v) = <<>>

\* the per-slot vectors of a page object / of a page's data have one length
ObjectAligned(page) ==
  /\ Len(page.rid) = page.num_records
  /\ Len(page.start_time) = page.num_records
  /\ Len(page.schema_encoding) = page.num_records
  /\ Len(page.indirection) = page.num_records
  /\ \A c \in Cols : Len(page.pages[c]) = page.num_records
DataAligned(data) ==
  /\ Len(data.timestamp) = Len(data.rid)
  /\ Len(data.schema_encoding) = Len(data.rid)
  /\ Len(data.indirection) = Len(data.rid)
  /\ \A c \in Cols : Len(data.columns[c]) = Len(data.rid)

\* C17: after any inserts and updates, every tail page has its rid,
\* timestamp, schema_encoding and indirection vectors and every column's
\* record count of one length, in the page object and in the buffer pool's
\* view of the page.
C17_TailVectorsAligned ==
  /\ \A p \in 1..Len(page_ranges) : \A g \in 1..Len(page_ranges[p].tail_pages) :
       ObjectAligned(page_ranges[p].tail_pages[g])
  /\ \A id \in DOMAIN bufferpool : id[1] = "tail" => DataAligned(bufferpool[id])

\* a tail page holds two slots, in the page object and in the buffer pool
C17_Witness ==
  \E p \in 1..Len(page_ranges) : \E g \in 1..Len(page_ranges[p].tail_pages) :
    /\ page_ranges[p].tail_pages[g].num_records = 2
    /\ Len(get_page(bufferpool, PageId("tail", p - 1, g - 1)).rid) = 2

\* C20: every call leaves every pin count as it found it, so between the
\* calls every pin count is 0.
C20_PinsBalanced ==
  \A i \in DOMAIN pins : pins[i] = 0

\* another transaction holds an exclusive lock on the key of the call,
\* taken through a different table, and none taken through the table of
\* the call
LockedElsewhereOnly(c) ==
  /\ \E h \in held_in :
       /\ h[1] # c.tx /\ h[2] # c.tb /\ h[3] = c.key
       /\ <<h[3], h[1], "X">> \in locks
  /\ \A h \in held_in : h[1] # c.tx /\ h[3] = c.key => h[2] # c.tb

\* C18: locks are per (table, key): the call of a transaction on key k of
\* one table is not refused because another transaction holds an exclusive
\* lock on the key value k of a different table of the database.
C18_LocksPerTable ==
  [][ (last'.tx # NoTx /\ last'.op \in Locking /\ LockedElsewhereOnly(last'))
        => ~last'.refused ]_vars

\* C19: the registry holds at most one table per name; create_table of a
\* registered name fails, drop_table and get_table of an unregistered name
\* fail, each leaving the registry as it was; get_table(n) returns the
\* table the latest create_table(n) made, if not dropped since, and after
\* drop_table(n) the name is free for a new create_table(n), which succeeds.
C19_Registry ==
  [][ LET n == last'.tb
          was == Registered(tables, n) # 0
      IN
      /\ \A i, j \in 1..Len(tables') : tables'[i].name = tables'[j].name => i = j
      /\ last'.op = "create_table" =>
           IF was THEN ~last'.ok /\ tables' = tables
           ELSE /\ last'.ok
                /\ Registered(tables', n) # 0
                /\ tables'[Registered(tables', n)].id = last'.ret
      /\ last'.op = "drop_table" =>
           IF was THEN last'.ok /\ Registered(tables', n) = 0
           ELSE ~last'.ok /\ tables' = tables
      /\ last'.op = "get_table" =>
           /\ tables' = tables
           /\ IF was THEN last'.ok /\ made_as[n] # 0 /\ last'.ret = made_as[n]
              ELSE ~last'.ok ]_vars

\* a name that was registered from the start was created again, after a
\* drop, and get_table then returned the new table
C19_Witness ==
  /\ last.op = "get_table" /\ last.ok /\ last.tb \in Tables
  /\ last.ret > Cardinality(Tables)

\* the tail slot a RID names, in the page objects of a table
TailRowOf(t, rid) ==
  LET page == t.page_ranges[rid[1] + 1].tail_pages[rid[2] + 1] IN
  [columns |-> [c \in Cols |-> At(page.pages[c], rid[3])],
   schema |-> At(page.schema_encoding, rid[3])]

\* C22: the tail row a successful update(k, cols) writes is a complete
\* image: a supplied column holds the supplied value (the key column too),
\* every other column the value of the record's previous latest version,
\* and the schema encoding has a 1 exactly at the supplied columns.  Stated
\* for the records whose key never changed before.
C22_TailRowIsCompleteImage ==
  \A i \in 1..Len(recs) : \A columns \in UpdateRows :
    SoleLive(i) /\ ~recs[i].rekeyed =>
      LET r == QueryUpdate(Tbl, recs[i].key, columns) IN
      r.ok =>
        \A rid \in TailRids(r.t.page_ranges) \ TailRids(page_ranges) :
          LET row == TailRowOf(r.t, rid) IN
          \A c \in Cols :
            /\ row.columns[c] = Overlay(LatestImage(recs[i]), columns)[c]
            /\ row.schema[c] = "1" <=> columns[c] # Null

\* the projections a read is called with: a flag per column
Projections == [Cols -> {0, 1}]

\* C23: for every search key, search column and projection,
\* select_version(key, col, proj, 0) returns the same list of records as
\* select(key, col, proj): as many records, with the same column values.
C23_VersionZeroIsSelect ==
  \A v \in AllVals, c \in Cols, projection \in Projections :
    ColumnsOf(select_version(Tbl, v, c, projection, 0))
      = ColumnsOf(select(Tbl, v, c, projection))

\* the buffer pool's data of a page holds what the page object holds
PageAgrees(page, data) ==
  /\ page.rid = data.rid
  /\ page.start_time = data.timestamp
  /\ page.schema_encoding = data.schema_encoding
  /\ page.indirection = data.indirection
  /\ \A c \in Cols : page.pages[c] = data.columns[c]

\* every base and tail page object of the table agrees with the buffer pool
ViewAgrees(prs, bp) ==
  \A p \in 1..Len(prs) :
    /\ \A g \in 1..Len(prs[p].base_pages) :
         PageAgrees(prs[p].base_pages[g], get_page(bp, PageId("base", p - 1, g - 1)))
    /\ \A g \in 1..Len(prs[p].tail_pages) :
         PageAgrees(prs[p].tail_pages[g], get_page(bp, PageId("tail", p - 1, g - 1)))

\* C24: every slot mutation reaches the buffer pool: after delete(k)
\* returns True the buffer pool's view of the record's base page shows the
\* deleted tombstone in its indirection slot, and after update returns True
\* the buffer pool's view of the base and tail pages agrees slot by slot
\* with the page objects.
C24_MutationsReachBufferPool ==
  [][ /\ (last'.op = "delete" /\ last'.ok) =>
           LET rid == locate(index, key_index, last'.key)[1] IN
           rid[4] = "b" => BaseIndirection(bufferpool', rid) = EmptyInd
      /\ (last'.op = "update" /\ last'.ok) =>
           ViewAgrees(page_ranges', bufferpool') ]_vars

\* C25: merge_counter counts the successful updates since the last merge:
\* only an update that returns True increments it, and exactly when it
\* reaches MERGE_THRESHOLD it is reset to 0 and trigger_merge is called
\* once; between the calls it is in 0..MERGE_THRESHOLD-1.
C25_MergeCounter ==
  [][ /\ merge_counter' \in 0..(MERGE_THRESHOLD - 1)
      /\ IF last'.op = "update" /\ last'.ok /\ last'.tb = "A"
         THEN IF merge_counter + 1 = MERGE_THRESHOLD
              THEN merge_counter' = 0 /\ merges' = merges + 1
              ELSE merge_counter' = merge_counter + 1 /\ merges' = merges
         ELSE UNCHANGED <<merge_counter, merges>> ]_vars

\* the update that reached the threshold triggered the merge, and a later
\* update failed
C25_Witness ==
  /\ merges = 1 /\ merge_counter = 0
  /\ last.op = "update" /\ ~last.ok /\ last.error = "IndexError"

\* C26: the key index maps every key value to at most one RID, no two live
\* records have the same current primary key, and an update that would
\* give a record the key of another live record does not succeed.
C26_KeysStayUnique ==
  /\ \A k \in IndexVals : Len(locate(index, key_index, k)) <= 1
  /\ \A i, j \in 1..Len(recs) :
       recs[i].live /\ recs[j].live /\ recs[i].key = recs[j].key => i = j

\* the reads of key k2 and the base indirection slot of its record are the
\* same in the table t as in the table now
SameRecord(t, k2) ==
  /\ BaseIndirection(t.bufferpool, recs[LiveRec(recs, k2)].base)
       = BaseIndirection(bufferpool, recs[LiveRec(recs, k2)].base)
  /\ ColumnsOf(select(t, k2, key_index, AllOnes))
       = ColumnsOf(select(Tbl, k2, key_index, AllOnes))
  /\ \A v \in Versions :
       ColumnsOf(select_version(t, k2, key_index, AllOnes, v))
         = ColumnsOf(select_version(Tbl, k2, key_index, AllOnes, v))

\* C27: update(k, ...) and delete(k) touch only the record with key k: for
\* every other live key k2 the base indirection slot of k2 and the results
\* of select(k2) and select_version(k2, v) are the same before and after
\* the call.  Stated for every call on a live key k that can follow the
\* state, and for the keys k2 that the call does not give to its own
\* record.
C27_OtherRecordsUntouched ==
  \A k \in Keys, k2 \in Keys :
    (k2 # k /\ LiveRec(recs, k) # 0 /\ LiveRec(recs, k2) # 0) =>
      /\ SameRecord(QueryDelete(Tbl, k).t, k2)
      /\ \A columns \in UpdateRows :
           NewKey(k, columns) # k2 => SameRecord(QueryUpdate(Tbl, k, columns).t, k2)

\* the elements of a list
Elements(lst) == {lst[n] : n \in 1..Len(lst)}

\* C28: every record select(v, c, all ones) returns is a version of a
\* record that the index on column c maps from v; when c is not the key
\* column the result is never the image of a different record whose
\* primary key happens to equal v.  Stated for the columns other than the
\* key, and for any version of the record in place of the latest.
C28_SelectReturnsIndexedRecord ==
  \A c \in Cols \ {key_index}, v \in AllVals :
    \A found \in Elements(select(Tbl, v, c, AllOnes)) :
      \E i \in 1..Len(recs) :
        /\ recs[i].base \in Elements(locate(index, c, v))
        /\ found.columns \in Elements(recs[i].images)

\* the live records a select of value v on column c returned: their base
\* RID is what the index on c maps from v, their latest version is among
\* the rows
ReturnedBy(rows, c, v) ==
  {i \in 1..Len(recs) :
     /\ recs[i].live
     /\ recs[i].base \in Elements(locate(index, c, v))
     /\ LatestImage(recs[i]) \in {rows[n].columns : n \in 1..Len(rows)}}

\* C29: while a transaction holds the read lock a select obtained, on
\* whatever column it searched, and the select returned a record, no update
\* and no delete of that record by another transaction returns True.
C29_ReadLockProtectsRecord ==
  \A tx \in Txs, c \in Cols, v \in AllVals :
    LET r == SelectCall(Tbl, tx, v, c, AllOnes) IN
    r.locked => \A i \in ReturnedBy(r.rows, c, v) : \A tx2 \in Txs \ {tx} :
      /\ ~DeleteCall(r.t, tx2, recs[i].key).ok
      /\ \A columns \in UpdateRows : ~UpdateCall(r.t, tx2, recs[i].key, columns).ok

\* the indirection of the base slot a RID names, in the page objects;
\* none when the base page has no such slot
SlotIndirection(prs, rid) ==
  IF rid[1] < Len(prs) /\ rid[2] < Len(prs[rid[1] + 1].base_pages)
  THEN LET indirection == At(prs[rid[1] + 1].base_pages, rid[2]).indirection
       IN IF rid[3] < Len(indirection) THEN At(indirection, rid[3]) ELSE NoneInd
  ELSE NoneInd

\* the update of tx returns at this step, having read its RID before
\* another transaction's delete of that RID returned True
UpdatesRemoved(tx) ==
  /\ running[tx].pc = "mutate" /\ running[tx].op = "update"
  /\ running'[tx] = Idle
  /\ \E h \in removed : h[1] # tx /\ h[2] = running[tx].rids[1]

\* an update that returns after the delete of its record returns False and
\* appends no tail slot
NoUpdateOfRemoved ==
  \A tx \in Txs : UpdatesRemoved(tx) =>
    /\ ~last'.ok
    /\ TailRids(page_ranges') = TailRids(page_ranges)
    /\ page_directory' = page_directory

\* C30: whatever the order of the steps (read of the index, lock, rest of
\* the call) of an update and a delete of two transactions on one key, an
\* update never returns True on a record whose delete has returned True:
\* from then on the indirection of its base slot is the tombstone and no
\* tail slot is added for it.
C30_NoUpdateAfterDelete ==
  [][ /\ NoUpdateOfRemoved
      /\ \A h \in removed' : SlotIndirection(page_ranges', h[2]) = EmptyInd ]_vars

\* the tail slot a RID names is installed in the buffer pool: its page's
\* columns, rid, timestamp, schema encoding and indirection have the slot
TailInstalled(bp, rid) ==
  LET data == get_page(bp, PageIdOf(rid)) IN
  /\ rid[3] < Len(data.rid) /\ At(data.rid, rid[3]) = rid
  /\ rid[3] < Len(data.timestamp)
  /\ rid[3] < Len(data.schema_encoding)
  /\ rid[3] < Len(data.indirection)
  /\ \A c \in Cols : rid[3] < Len(data.columns[c])

\* the RIDs of the base slots in the buffer pool
InstalledBaseRids(bp) ==
  UNION {{<<id[2], id[3], n - 1, "b">> : n \in 1..Len(bp[id].indirection)} :
           id \in {i \in DOMAIN bp : i[1] = "base"}}

\* C21: in every state of the buffer pool, between the steps of an update
\* too, a base indirection that names a tail RID names a slot that is
\* installed in the buffer pool with its columns, rid, timestamp, schema
\* encoding and indirection.
C21_TailInstalledBeforeBase ==
  \A rid \in InstalledBaseRids(bufferpool) :
    LET next == BaseIndirection(bufferpool, rid) IN
    (next # NoneInd /\ next # EmptyInd) => TailInstalled(bufferpool, next)

====
